---- MODULE Spec2Model ----
(***************************************************************************)
(* A model of website-checker (src/app.py): check_website, the inspector   *)
(* of one URL, and main, the batch runner that drives it over the rows of  *)
(* websites.csv and appends the records to results.csv.                    *)
(*                                                                         *)
(* Python strings are TLA+ strings; startswith, in, lower, strip, join and *)
(* the three regular expressions are computed character by character.      *)
(* The two external libraries are inputs: requests.get is a response (or   *)
(* an exception) drawn from a bounded set, and BeautifulSoup is a table    *)
(* from the fragments a body is built of to the elements it parses to.     *)
(***************************************************************************)
EXTENDS Integers, Sequences, FiniteSets, TLC

VARIABLES
    \* ---- main ----
    pc,             \* position of main
    input_file,     \* websites.csv: NoFile, or its rows (each a sequence of cells)
    out_file,       \* results.csv: [exists, rows]
    BATCH_SIZE,     \* src/app.py:107 (100 there; drawn from 1..MaxBatch here)
    websites,       \* the list built by lines 111-117
    index,          \* the loop's 1-based index (0 before the first iteration)
    result,         \* the record returned by the current check_website call
    batch_results,  \* the in-memory batch
    written,        \* rows of the batch written so far by the open append
    console,        \* what main printed (one tag per message)
    \* ---- history of main ----
    out_initial,    \* results.csv as it was when main started
    produced,       \* every record check_website returned, in call order
    flushes,        \* the size of every batch saved, in order
    durable,        \* the rows of results.csv when the last save completed
    header_writes,  \* how many times the header row was written
    \* ---- one check_website call on its own ----
    in_url, in_resp, in_order, rec

vars == <<pc, input_file, out_file, BATCH_SIZE, websites, index, result,
          batch_results, written, console, out_initial, produced, flushes,
          durable, header_writes, in_url, in_resp, in_order, rec>>

----------------------------------------------------------------------------
(* Bounds *)

MaxBody == 2     \* fragments in a response body
MaxRows == 3     \* rows of websites.csv
MaxBatch == 3    \* largest BATCH_SIZE tried

----------------------------------------------------------------------------
(* Python's str methods *)

StartsWith(s, p) == Len(s) >= Len(p) /\ SubSeq(s, 1, Len(p)) = p

\* p in s
Contains(s, p) ==
    \E i \in 1..(Len(s) - Len(p) + 1) : SubSeq(s, i, i + Len(p) - 1) = p

LowerChar(c) ==
    CASE c = "A" -> "a" [] c = "B" -> "b" [] c = "C" -> "c" [] c = "D" -> "d"
      [] c = "E" -> "e" [] c = "F" -> "f" [] c = "G" -> "g" [] c = "H" -> "h"
      [] c = "I" -> "i" [] c = "J" -> "j" [] c = "K" -> "k" [] c = "L" -> "l"
      [] c = "M" -> "m" [] c = "N" -> "n" [] c = "O" -> "o" [] c = "P" -> "p"
      [] c = "Q" -> "q" [] c = "R" -> "r" [] c = "S" -> "s" [] c = "T" -> "t"
      [] c = "U" -> "u" [] c = "V" -> "v" [] c = "W" -> "w" [] c = "X" -> "x"
      [] c = "Y" -> "y" [] c = "Z" -> "z" [] OTHER -> c

RECURSIVE LowerRange(_, _, _)
\* the characters i..j of s, each lowered (by halves, to keep the evaluation shallow)
LowerRange(s, i, j) ==
    IF i > j THEN ""
    ELSE IF i = j THEN LowerChar(SubSeq(s, i, i))
    ELSE LET m == (i + j) \div 2
         IN  LowerRange(s, i, m) \o LowerRange(s, m + 1, j)

\* s.lower()
Lower(s) == LowerRange(s, 1, Len(s))

\* the least member of a non-empty set of integers
Min(S) == CHOOSE i \in S : \A j \in S : i <= j

RECURSIVE LStrip(_)
LStrip(s) ==
    IF Len(s) > 0 /\ SubSeq(s, 1, 1) = " " THEN LStrip(SubSeq(s, 2, Len(s))) ELSE s

RECURSIVE RStrip(_)
RStrip(s) ==
    IF Len(s) > 0 /\ SubSeq(s, Len(s), Len(s)) = " "
    THEN RStrip(SubSeq(s, 1, Len(s) - 1)) ELSE s

\* s.strip()
Strip(s) == RStrip(LStrip(s))

RECURSIVE JoinFrom(_, _, _)
JoinFrom(sep, seq, i) ==
    IF i > Len(seq) THEN ""
    ELSE IF i = Len(seq) THEN seq[i]
    ELSE seq[i] \o sep \o JoinFrom(sep, seq, i + 1)

\* sep.join(seq)
Join(sep, seq) == JoinFrom(sep, seq, 1)

DigitChar(d) ==
    CASE d = 0 -> "0" [] d = 1 -> "1" [] d = 2 -> "2" [] d = 3 -> "3"
      [] d = 4 -> "4" [] d = 5 -> "5" [] d = 6 -> "6" [] d = 7 -> "7"
      [] d = 8 -> "8" [] OTHER -> "9"

RECURSIVE StrOfNat(_)
\* str(n) of a non-negative int
StrOfNat(n) == IF n < 10 THEN DigitChar(n) ELSE StrOfNat(n \div 10) \o DigitChar(n % 10)

----------------------------------------------------------------------------
(* The regular expressions of check_website *)

LowerLetters ==
    {"a", "b", "c", "d", "e", "f", "g", "h", "i", "j", "k", "l", "m",
     "n", "o", "p", "q", "r", "s", "t", "u", "v", "w", "x", "y", "z"}

UpperLetters ==
    {"A", "B", "C", "D", "E", "F", "G", "H", "I", "J", "K", "L", "M",
     "N", "O", "P", "Q", "R", "S", "T", "U", "V", "W", "X", "Y", "Z"}

DigitChars == {"0", "1", "2", "3", "4", "5", "6", "7", "8", "9"}

\* [a-z0-9_\-]
ThemeSlugChars == LowerLetters \cup DigitChars \cup {"_", "-"}

\* [a-zA-Z0-9_\-]
PluginSlugChars == LowerLetters \cup UpperLetters \cup DigitChars \cup {"_", "-"}

RECURSIVE RunLength(_, _, _)
\* the length of the longest run of characters of cls in s from position i
RunLength(s, i, cls) ==
    IF i <= Len(s) /\ SubSeq(s, i, i) \in cls THEN 1 + RunLength(s, i + 1, cls) ELSE 0

\* prefix([cls]+)/ matched at position i of s: the group, or "" when there is
\* no match there. The class holds no "/", so the greedy run is the only
\* candidate for the group.
PathSlugAt(s, i, prefix, cls) ==
    IF i + Len(prefix) - 1 <= Len(s) /\ SubSeq(s, i, i + Len(prefix) - 1) = prefix
    THEN LET from == i + Len(prefix)
             n == RunLength(s, from, cls)
         IN  IF n >= 1 /\ from + n <= Len(s) /\ SubSeq(s, from + n, from + n) = "/"
             THEN SubSeq(s, from, from + n - 1)
             ELSE ""
    ELSE ""

\* the positions of s where prefix([cls]+)/ matches
PathMatches(s, prefix, cls) == {i \in 1..Len(s) : PathSlugAt(s, i, prefix, cls) # ""}

\* re.search(prefix([cls]+)/, s): group 1 of the leftmost match, "" when
\* there is none
SearchPathSlug(s, prefix, cls) ==
    LET at == PathMatches(s, prefix, cls)
    IN  IF at = {} THEN "" ELSE PathSlugAt(s, Min(at), prefix, cls)

RECURSIVE SlugsAt(_, _, _, _)
\* group 1 of the matches at the positions at, left to right
SlugsAt(s, at, prefix, cls) ==
    IF at = {} THEN <<>>
    ELSE <<PathSlugAt(s, Min(at), prefix, cls)>>
            \o SlugsAt(s, at \ {Min(at)}, prefix, cls)

\* re.findall(prefix([cls]+)/, s): group 1 of every non-overlapping match,
\* left to right. No two matches of these patterns overlap (the prefix
\* starts with a letter that occurs nowhere else in it, and holds a "/",
\* which no group holds), so every matching position counts.
FindAllPathSlugs(s, prefix, cls) == SlugsAt(s, PathMatches(s, prefix, cls), prefix, cls)

\* 20\d{2} at position i
YearAt(s, i) ==
    /\ i + 3 <= Len(s)
    /\ SubSeq(s, i, i + 1) = "20"
    /\ SubSeq(s, i + 2, i + 2) \in DigitChars
    /\ SubSeq(s, i + 3, i + 3) \in DigitChars

\* where (?:copyright|©) matches at position i, the position after it; 0 otherwise
CopyrightEnd(s, i) ==
    IF i + 8 <= Len(s) /\ SubSeq(s, i, i + 8) = "copyright" THEN i + 9
    ELSE IF SubSeq(s, i, i) = "©" THEN i + 1
    ELSE 0

\* re.search(r'(?:copyright|©).*?(20\d{2})', s): group 1 of the leftmost
\* match, "" when there is none. The match starts at the first keyword that
\* has a year after it, and the lazy .*? stops at the first such year.
\* (The bodies of the model hold no line break, which "." would not cross.)
SearchCopyright(s) ==
    LET starts == {i \in 1..Len(s) :
                      /\ CopyrightEnd(s, i) # 0
                      /\ \E j \in CopyrightEnd(s, i)..Len(s) : YearAt(s, j)}
    IN  IF starts = {} THEN ""
        ELSE LET y == Min({j \in CopyrightEnd(s, Min(starts))..Len(s) : YearAt(s, j)})
             IN  SubSeq(s, y, y + 3)
----------------------------------------------------------------------------
(* The two libraries check_website calls *)

\* The fragments a response body is built of.
Fragments ==
    {"<title> Acme Shop </title>",
     "<title></title>",
     "<meta name='description' content=' Best tools '>",
     "<meta name='generator' content='WordPress 6.4'>",
     "<meta name='viewport' content='width=device-width'>",
     "<link href='/wp-content/plugins/akismet/a.css'>",
     "<script src='/WP-Content/Plugins/WooCommerce/w.js'>",
     "<link href='/wp-content/themes/my-theme/style.css'>",
     "<p>© 2021 Example Corp</p>"}

NoElement == [tag |-> "", name |-> "", content |-> "", has_string |-> FALSE, string |-> ""]

\* BeautifulSoup(text, 'html.parser') on one fragment: the element it parses
\* to (tag, name and content attributes, .string), NoElement for a tag the
\* code never asks for.
ParseFragment(f) ==
    CASE f = "<title> Acme Shop </title>" ->
            [NoElement EXCEPT !.tag = "title", !.has_string = TRUE, !.string = " Acme Shop "]
      [] f = "<title></title>" ->
            [NoElement EXCEPT !.tag = "title"]
      [] f = "<meta name='description' content=' Best tools '>" ->
            [NoElement EXCEPT !.tag = "meta", !.name = "description", !.content = " Best tools "]
      [] f = "<meta name='generator' content='WordPress 6.4'>" ->
            [NoElement EXCEPT !.tag = "meta", !.name = "generator", !.content = "WordPress 6.4"]
      [] f = "<meta name='viewport' content='width=device-width'>" ->
            [NoElement EXCEPT !.tag = "meta", !.name = "viewport", !.content = "width=device-width"]
      [] OTHER -> NoElement

\* response.text of a body
BodyText(body) == Join("", body)

\* soup.title / soup.find('meta', attrs={'name': name}): the first element of
\* the body with that tag and name attribute, NoElement (None) when there is none
SoupFind(body, tag, name) ==
    LET hits == {i \in 1..Len(body) :
                    /\ ParseFragment(body[i]).tag = tag
                    /\ ParseFragment(body[i]).name = name}
    IN  IF hits = {} THEN NoElement
        ELSE ParseFragment(body[CHOOSE i \in hits : \A j \in hits : i <= j])

\* the message of the exception requests.get raises before any connection
\* for a URL it cannot send (MissingSchema, InvalidSchema)
NoSchemeMessage == "Invalid URL: No scheme supplied"

\* requests.get(url, timeout=10): a URL without an http:// or https://
\* scheme raises; otherwise the outcome is the network's (net.exc is the
\* message of the exception raised, "" when a response arrives)
RequestsGet(url, net) ==
    IF StartsWith(Lower(url), "http://") \/ StartsWith(Lower(url), "https://")
    THEN net
    ELSE [net EXCEPT !.exc = NoSchemeMessage]

\* round(end_time - start_time, 2), in hundredths of a second, of an elapsed
\* time in milliseconds
Round2(ms) ==
    LET q == ms \div 10
        r == ms % 10
    IN  IF r > 5 \/ (r = 5 /\ q % 2 = 1) THEN q + 1 ELSE q

RECURSIVE ListOfSet(_)
ListOfSet(S) ==
    IF S = {} THEN <<>>
    ELSE LET x == CHOOSE x \in S : TRUE IN <<x>> \o ListOfSet(S \ {x})

Reverse(seq) == [i \in 1..Len(seq) |-> seq[Len(seq) + 1 - i]]

\* list(set(plugins)): the distinct members, in an order that depends on the
\* interpreter's string hashing (order is "fwd" or "rev")
ListSet(plugins, order) ==
    LET l == ListOfSet({plugins[i] : i \in 1..Len(plugins)})
    IN  IF order = "fwd" THEN l ELSE Reverse(l)

----------------------------------------------------------------------------
(* check_website *)

\* results['status'] is an int (the HTTP status) or a str
IntStatus(n) == [is_int |-> TRUE, code |-> n, text |-> ""]
StrStatus(s) == [is_int |-> FALSE, code |-> 0, text |-> s]

\* lines 8-27
DefaultResults(url) ==
    [url |-> url,
     is_wordpress |-> FALSE,
     plugin_count |-> 0,
     plugin_names |-> "",
     load_time_seconds |-> 0,
     status |-> StrStatus("Error"),
     site_title |-> "",
     meta_description |-> "",
     theme |-> "",
     copyright_year |-> "",
     has_woocommerce |-> FALSE,
     has_shopify |-> FALSE,
     has_elementor |-> FALSE,
     has_beaver_builder |-> FALSE,
     has_analytics |-> FALSE,
     has_pixel |-> FALSE,
     is_https |-> FALSE,
     has_viewport |-> FALSE]

\* lines 30-31: the URL handed to requests.get
NormalizeUrl(url) == IF ~StartsWith(url, "http") THEN "https://" \o url ELSE url

\* line 33
IsHttps(url) == StartsWith(url, "https")

\* stands for a check_website call that does not return: an exception left
\* it. Line 98 catches every Exception, so the code never yields it.
Raised == [DefaultResults("") EXCEPT !.status = StrStatus("raised")]

\* an except clause that re-raises
ExceptHandlerReraises(results, msg) == Raised

\* an except clause that leaves the status alone
ExceptHandlerKeepsStatus(results, msg) == [results EXCEPT !.plugin_names = ""]

\* lines 98-100: the except clause
ExceptHandler(results, msg) ==
    [results EXCEPT !.status = StrStatus("Error: " \o msg), !.plugin_names = ""]

\* lines 47-48
StepTitle(results, body) ==
    LET title == SoupFind(body, "title", "")
    IN  IF title.tag # ""
        THEN [results EXCEPT !.site_title =
                                IF title.has_string THEN Strip(title.string) ELSE ""]
        ELSE results

\* lines 51-53
StepMetaDescription(results, body) ==
    LET meta_desc == SoupFind(body, "meta", "description")
    IN  IF meta_desc.tag # "" /\ meta_desc.content # ""
        THEN [results EXCEPT !.meta_description = Strip(meta_desc.content)]
        ELSE results

\* lines 56-59
StepWordPress(results, body, html_content) ==
    IF Contains(html_content, "wp-content")
    THEN [results EXCEPT !.is_wordpress = TRUE]
    ELSE IF \E i \in 1..Len(body) :
                /\ ParseFragment(body[i]).tag = "meta"
                /\ ParseFragment(body[i]).name = "generator"
                /\ Contains(Lower(ParseFragment(body[i]).content), "wordpress")
    THEN [results EXCEPT !.is_wordpress = TRUE]
    ELSE results

\* lines 63-66
StepTheme(results, html_content) ==
    LET theme_match == SearchPathSlug(html_content, "wp-content/themes/", ThemeSlugChars)
    IN  IF theme_match # "" THEN [results EXCEPT !.theme = theme_match] ELSE results

\* lines 70-73
StepCopyright(results, html_content) ==
    LET copyright_match == SearchCopyright(html_content)
    IN  IF copyright_match # ""
        THEN [results EXCEPT !.copyright_year = copyright_match]
        ELSE results

\* lines 77-81
StepPlugins(results, html_content, order) ==
    LET plugins == FindAllPathSlugs(html_content, "wp-content/plugins/", PluginSlugChars)
        unique_plugins == ListSet(plugins, order)
    IN  [results EXCEPT !.plugin_count = Len(unique_plugins),
                        !.plugin_names = Join(", ", unique_plugins)]

\* lines 84-89
StepTech(results, html_content) ==
    [results EXCEPT
        !.has_woocommerce = Contains(html_content, "woocommerce"),
        !.has_shopify = Contains(html_content, "shopify"),
        !.has_elementor = Contains(html_content, "elementor"),
        !.has_beaver_builder = Contains(html_content, "beaver-builder"),
        !.has_analytics = Contains(html_content, "googletagmanager")
                            \/ Contains(html_content, "google-analytics"),
        !.has_pixel = Contains(html_content, "facebook-pixel")
                            \/ Contains(html_content, "fbevents.js")]

\* lines 94-96
StepViewport(results, body) ==
    IF SoupFind(body, "meta", "viewport").tag # ""
    THEN [results EXCEPT !.has_viewport = TRUE]
    ELSE results

\* The statements of the 200 branch, in order. net.fail_at names the one that
\* raises ("none": none does).
InspectSteps ==
    <<"parse", "title", "meta_description", "wordpress", "theme",
      "copyright", "plugins", "tech", "viewport">>

ApplyStep(step, results, body, html_content, order) ==
    CASE step = "parse" -> results      \* lines 42-43 assign no field
      [] step = "title" -> StepTitle(results, body)
      [] step = "meta_description" -> StepMetaDescription(results, body)
      [] step = "wordpress" -> StepWordPress(results, body, html_content)
      [] step = "theme" -> StepTheme(results, html_content)
      [] step = "copyright" -> StepCopyright(results, html_content)
      [] step = "plugins" -> StepPlugins(results, html_content, order)
      [] step = "tech" -> StepTech(results, html_content)
      [] OTHER -> StepViewport(results, body)

RECURSIVE RunSteps(_, _, _, _, _)
\* lines 42-96 from statement i on, inside the try: a raising statement
\* hands the results so far to the except clause
RunSteps(i, results, net, html_content, order) ==
    IF i > Len(InspectSteps) THEN results
    ELSE IF net.fail_at = InspectSteps[i] THEN ExceptHandler(results, net.fail_msg)
    ELSE RunSteps(i + 1,
                  ApplyStep(InspectSteps[i], results, net.body, html_content, order),
                  net, html_content, order)

\* any response is inspected
ShouldInspectAnyStatus(status_code) == status_code >= 200

\* line 41
ShouldInspect(status_code) == status_code = 200

\* lines 7-102
check_website(url, net, order) ==
    LET results0 == DefaultResults(url)
        url1 == NormalizeUrl(url)
        results1 == [results0 EXCEPT !.is_https = IsHttps(url1)]
        response == RequestsGet(url1, net)
    IN  IF response.exc # ""
        THEN ExceptHandler(results1, response.exc)
        ELSE LET results2 ==
                    [results1 EXCEPT !.load_time_seconds = Round2(response.elapsed_ms),
                                     !.status = IntStatus(response.status_code)]
             IN  IF ShouldInspect(response.status_code)
                 THEN RunSteps(1, results2, response, Lower(BodyText(response.body)), order)
                 ELSE results2

----------------------------------------------------------------------------
(* The inputs of one check_website call *)

RECURSIVE SeqsUpTo(_, _)
\* the sequences over S of length at most n
SeqsUpTo(S, n) ==
    IF n = 0 THEN {<<>>}
    ELSE LET shorter == SeqsUpTo(S, n - 1)
         IN  shorter \cup {Append(q, x) : q \in shorter, x \in S}

Urls == {"example.com", "httpbin.org", "httpsites.net", "http://a.io", "https://a.io"}

Bodies == SeqsUpTo(Fragments, MaxBody)

\* elapsed times of a fetch, in milliseconds
ElapsedSamples == {2507}

\* requests.get raised: a timeout, a refused connection
FetchErrors ==
    {[exc |-> m, status_code |-> 0, elapsed_ms |-> 0, body |-> <<>>,
      fail_at |-> "none", fail_msg |-> ""] :
        m \in {"Read timed out", "Connection refused"}}

\* a response that is not a 200
OtherResponses ==
    {[exc |-> "", status_code |-> 404, elapsed_ms |-> e, body |-> b,
      fail_at |-> "none", fail_msg |-> ""] :
        e \in ElapsedSamples, b \in Bodies}

\* a 200 response, and the statement of the inspection that raises, if any
OkResponses ==
    {[exc |-> "", status_code |-> 200, elapsed_ms |-> e, body |-> b,
      fail_at |-> f, fail_msg |-> IF f = "none" THEN "" ELSE "inspection failed"] :
        e \in ElapsedSamples, b \in Bodies,
        f \in {"none"} \cup {InspectSteps[i] : i \in 1..Len(InspectSteps)}}

NetOutcomes == FetchErrors \cup OtherResponses \cup OkResponses

HashOrders == {"fwd", "rev"}

\* the orders that give different lists for the plugins of a response: one
\* when the body names fewer than two distinct plugins
OrdersOf(net) ==
    LET plugins == FindAllPathSlugs(Lower(BodyText(net.body)),
                                    "wp-content/plugins/", PluginSlugChars)
    IN  IF Cardinality({plugins[i] : i \in 1..Len(plugins)}) >= 2
        THEN HashOrders ELSE {"fwd"}

NoRecord == [DefaultResults("") EXCEPT !.status = StrStatus("")]

----------------------------------------------------------------------------
(* The files and the csv module *)

\* lines 126-133
fieldnames ==
    <<"url", "status", "load_time_seconds",
      "site_title", "meta_description", "copyright_year",
      "is_wordpress", "theme", "plugin_count", "plugin_names",
      "has_woocommerce", "has_shopify", "has_elementor", "has_beaver_builder",
      "has_analytics", "has_pixel",
      "is_https", "has_viewport">>

BoolFields ==
    {"is_wordpress", "has_woocommerce", "has_shopify", "has_elementor",
     "has_beaver_builder", "has_analytics", "has_pixel", "is_https", "has_viewport"}

\* str(b)
StrOfBool(b) == IF b THEN "True" ELSE "False"

\* str(x) of load_time_seconds, held in hundredths: the int 0 of line 13, or
\* the float round(..., 2) of line 38 (no fetch of the model rounds to 0.0)
StrOfSeconds(c) ==
    IF c = 0 THEN "0"
    ELSE StrOfNat(c \div 100) \o "." \o DigitChar((c % 100) \div 10)
            \o (IF c % 10 = 0 THEN "" ELSE DigitChar(c % 10))

\* the text csv.DictWriter writes for field key of a record
FieldText(res, key) ==
    CASE key \in BoolFields -> StrOfBool(res[key])
      [] key = "plugin_count" -> StrOfNat(res[key])
      [] key = "load_time_seconds" -> StrOfSeconds(res[key])
      [] key = "status" -> IF res[key].is_int THEN StrOfNat(res[key].code) ELSE res[key].text
      [] OTHER -> res[key]

\* writer.writerow(res): one cell per field name, in the header's order
Row(res) == [i \in 1..Len(fieldnames) |-> FieldText(res, fieldnames[i])]

\* lines 135-137: open(output_file, 'w') and writeheader()
WriteHeaderFile(file) == [exists |-> TRUE, rows |-> <<fieldnames>>]

\* the file opened with 'w' for the save
AppendRowTruncating(file, row) == [exists |-> TRUE, rows |-> <<row>>]

\* lines 168-171: one writerow on the file opened with 'a'
AppendRow(file, row) == [exists |-> TRUE, rows |-> file.rows \o <<row>>]

RECURSIVE ReadWebsites(_)
\* lines 114-117: the first cell, stripped, of every row that has cells
ReadWebsites(rows) ==
    IF rows = <<>> THEN <<>>
    ELSE (IF Head(rows) # <<>> THEN <<Strip(Head(rows)[1])>> ELSE <<>>)
            \o ReadWebsites(Tail(rows))

\* lines 151-153: every field name missing from the record is set to ""
EnsureKeys(res) ==
    [key \in DOMAIN res \cup {fieldnames[i] : i \in 1..Len(fieldnames)} |->
        IF key \in DOMAIN res THEN res[key] ELSE ""]

\* no save of the last, partial batch
ShouldSaveFullOnly(n, batch_size, i, total_websites) == n >= batch_size

\* the batch saved one record late
ShouldSaveLate(n, batch_size, i, total_websites) == n > batch_size \/ i = total_websites

\* line 166
ShouldSave(n, batch_size, i, total_websites) == n >= batch_size \/ i = total_websites

----------------------------------------------------------------------------
(* The inputs of a run of main *)

\* rows of websites.csv: a blank line, a URL with cells after it, a bare URL
RowSamples == {<<>>, <<" example.com ", "lead">>, <<"http://a.io">>}

InputFiles ==
    {[exists |-> FALSE, rows |-> <<>>]}
        \cup {[exists |-> TRUE, rows |-> r] : r \in SeqsUpTo(RowSamples, MaxRows)}

\* results.csv before the run: absent, or left by an earlier run
OutFiles ==
    {[exists |-> FALSE, rows |-> <<>>],
     [exists |-> TRUE, rows |-> <<fieldnames, Row(DefaultResults("old.example"))>>]}

\* what the network answers during a run: an exception, a 404, a 200
RunOutcomes ==
    {[exc |-> "Read timed out", status_code |-> 0, elapsed_ms |-> 0, body |-> <<>>,
      fail_at |-> "none", fail_msg |-> ""],
     [exc |-> "", status_code |-> 404, elapsed_ms |-> 2507, body |-> <<>>,
      fail_at |-> "none", fail_msg |-> ""],
     [exc |-> "", status_code |-> 200, elapsed_ms |-> 2507,
      body |-> <<"<link href='/wp-content/plugins/akismet/a.css'>">>,
      fail_at |-> "none", fail_msg |-> ""]}

\* the URLs ReadWebsites finds in the rows
RunUrls == {Strip(row[1]) : row \in RowSamples \ {<<>>}}

\* line 148, for every call a run can make: the record check_website
\* returns for a URL, an answer of the network and a set order
CheckedRecords ==
    [url \in RunUrls |->
        [net \in RunOutcomes |->
            [order \in HashOrders |-> check_website(url, net, order)]]]

----------------------------------------------------------------------------
(* main *)

\* the state of main before it reads anything
MainStart ==
    /\ pc = "start"
    /\ websites = <<>>
    /\ index = 0
    /\ result = NoRecord
    /\ batch_results = <<>>
    /\ written = 0
    /\ console = <<"reading">>
    /\ out_initial = out_file
    /\ produced = <<>>
    /\ flushes = <<>>
    /\ durable = <<>>
    /\ header_writes = 0

\* no check_website call on its own
InspectIdle ==
    /\ in_url = ""
    /\ in_resp = [exc |-> "", status_code |-> 0, elapsed_ms |-> 0, body |-> <<>>,
                  fail_at |-> "none", fail_msg |-> ""]
    /\ in_order = "fwd"
    /\ rec = NoRecord

mainVars == <<pc, input_file, out_file, BATCH_SIZE, websites, index, result,
              batch_results, written, console, out_initial, produced, flushes,
              durable, header_writes>>

inspectVars == <<in_url, in_resp, in_order, rec>>

Init ==
    /\ input_file \in InputFiles
    /\ out_file \in OutFiles
    /\ BATCH_SIZE \in 1..MaxBatch
    /\ MainStart
    /\ InspectIdle

\* lines 112-117, 122-123: the input is read
ReadInput ==
    /\ pc = "start"
    /\ input_file.exists
    /\ websites' = ReadWebsites(input_file.rows)
    /\ console' = Append(console, "found")
    /\ pc' = "write_header"
    /\ UNCHANGED <<input_file, out_file, BATCH_SIZE, index, result, batch_results,
                   written, out_initial, produced, flushes, durable, header_writes>>
    /\ UNCHANGED inspectVars

\* FileNotFoundError reported without the return
InputMissingFallsThrough ==
    /\ pc = "start"
    /\ ~input_file.exists
    /\ console' = Append(console, "not found")
    /\ pc' = "write_header"
    /\ UNCHANGED <<input_file, out_file, BATCH_SIZE, websites, index, result,
                   batch_results, written, out_initial, produced, flushes, durable,
                   header_writes>>
    /\ UNCHANGED inspectVars

\* lines 118-120: FileNotFoundError
InputMissing ==
    /\ pc = "start"
    /\ ~input_file.exists
    /\ console' = Append(console, "not found")
    /\ pc' = "returned"
    /\ UNCHANGED <<input_file, out_file, BATCH_SIZE, websites, index, result,
                   batch_results, written, out_initial, produced, flushes, durable,
                   header_writes>>
    /\ UNCHANGED inspectVars

\* lines 135-139
WriteHeader ==
    /\ pc = "write_header"
    /\ out_file' = WriteHeaderFile(out_file)
    /\ header_writes' = header_writes + 1
    /\ durable' = out_file'.rows
    /\ batch_results' = <<>>
    /\ pc' = "loop"
    /\ UNCHANGED <<input_file, BATCH_SIZE, websites, index, result, written, console,
                   out_initial, produced, flushes>>
    /\ UNCHANGED inspectVars

\* lines 141-153: the next URL is taken and checked; an exception that
\* leaves check_website ends main
CallCheck ==
    /\ pc = "loop"
    /\ index < Len(websites)
    /\ index' = index + 1
    /\ \E net \in RunOutcomes : \E order \in OrdersOf(net) :
          \E r \in {CheckedRecords[websites[index + 1]][net][order]} :
              IF r = Raised
              THEN /\ pc' = "crashed"
                   /\ UNCHANGED <<result, produced>>
              ELSE /\ result' = EnsureKeys(r)
                   /\ produced' = Append(produced, result')
                   /\ pc' = "append"
    /\ UNCHANGED <<input_file, out_file, BATCH_SIZE, websites, batch_results, written,
                   console, out_initial, flushes, durable, header_writes>>
    /\ UNCHANGED inspectVars

\* line 155
AppendResult ==
    /\ pc = "append"
    /\ batch_results' = Append(batch_results, result)
    /\ pc' = "check_save"
    /\ UNCHANGED <<input_file, out_file, BATCH_SIZE, websites, index, result, written,
                   console, out_initial, produced, flushes, durable, header_writes>>
    /\ UNCHANGED inspectVars

\* lines 166-168: the batch is due; the file is opened for appending
OpenSave ==
    /\ pc = "check_save"
    /\ ShouldSave(Len(batch_results), BATCH_SIZE, index, Len(websites))
    /\ flushes' = Append(flushes, Len(batch_results))
    /\ console' = Append(console, "saving")
    /\ written' = 0
    /\ pc' = "saving"
    /\ UNCHANGED <<input_file, out_file, BATCH_SIZE, websites, index, result,
                   batch_results, out_initial, produced, durable, header_writes>>
    /\ UNCHANGED inspectVars

\* line 166: the batch is not due
SkipSave ==
    /\ pc = "check_save"
    /\ ~ShouldSave(Len(batch_results), BATCH_SIZE, index, Len(websites))
    /\ pc' = "loop"
    /\ UNCHANGED <<input_file, out_file, BATCH_SIZE, websites, index, result,
                   batch_results, written, console, out_initial, produced, flushes,
                   durable, header_writes>>
    /\ UNCHANGED inspectVars

\* lines 170-171: one record of the batch is written
WriteRow ==
    /\ pc = "saving"
    /\ written < Len(batch_results)
    /\ out_file' = AppendRow(out_file, Row(batch_results[written + 1]))
    /\ written' = written + 1
    /\ UNCHANGED <<pc, input_file, BATCH_SIZE, websites, index, result, batch_results,
                   console, out_initial, produced, flushes, durable, header_writes>>
    /\ UNCHANGED inspectVars

\* lines 168, 172: the file is closed and the batch cleared
CloseSave ==
    /\ pc = "saving"
    /\ written = Len(batch_results)
    /\ batch_results' = <<>>
    /\ durable' = out_file.rows
    /\ pc' = "loop"
    /\ UNCHANGED <<input_file, out_file, BATCH_SIZE, websites, index, result, written,
                   console, out_initial, produced, flushes, header_writes>>
    /\ UNCHANGED inspectVars

\* lines 174-177: the loop is over
Finish ==
    /\ pc = "loop"
    /\ index = Len(websites)
    /\ console' = Append(console, "done")
    /\ pc' = "done"
    /\ UNCHANGED <<input_file, out_file, BATCH_SIZE, websites, index, result,
                   batch_results, written, out_initial, produced, flushes, durable,
                   header_writes>>
    /\ UNCHANGED inspectVars

Next ==
    \/ ReadInput
    \/ InputMissing
    \/ WriteHeader
    \/ CallCheck
    \/ AppendResult
    \/ OpenSave
    \/ SkipSave
    \/ WriteRow
    \/ CloseSave
    \/ Finish

Spec == Init /\ [][Next]_vars

\* main runs to its end: nothing but the process being killed stops it
FairSpec == Spec /\ WF_vars(Next)

----------------------------------------------------------------------------
(* One check_website call: the inputs are drawn, the call returns *)

InitInspect ==
    /\ input_file = [exists |-> FALSE, rows |-> <<>>]
    /\ out_file = [exists |-> FALSE, rows |-> <<>>]
    /\ BATCH_SIZE = 1
    /\ MainStart
    /\ in_url \in Urls
    /\ in_resp \in NetOutcomes
    /\ in_order \in OrdersOf(in_resp)
    /\ rec = NoRecord

Inspect ==
    /\ rec = NoRecord
    /\ rec' = check_website(in_url, in_resp, in_order)
    /\ UNCHANGED <<in_url, in_resp, in_order>>
    /\ UNCHANGED mainVars

NextInspect == Inspect

SpecInspect == InitInspect /\ [][NextInspect]_vars

----------------------------------------------------------------------------
(* Properties of main *)

CeilDiv(a, b) == (a + b - 1) \div b

IsPrefix(p, q) == Len(p) <= Len(q) /\ SubSeq(q, 1, Len(p)) = p

\* the positions of main after the header is written
AfterHeader == {"loop", "append", "check_save", "saving", "done", "crashed"}

\* records check_website returned that are not yet rows of results.csv
Unflushed ==
    Len(produced) - (IF header_writes > 0 THEN Len(out_file.rows) - 1 ELSE 0)

\* C1: a completed run over N >= 1 URLs with batch size B saves exactly
\* ceil(N/B) batches, each of B records but the last, which holds the
\* N - (ceil(N/B)-1)*B that remain, and leaves the header and N data rows.
C1_BatchFlushes ==
    (pc = "done" /\ Len(websites) >= 1) =>
        LET n == Len(websites)
            k == CeilDiv(n, BATCH_SIZE)
        IN  /\ Len(flushes) = k
            /\ \A i \in 1..(k - 1) : flushes[i] = BATCH_SIZE
            /\ flushes[k] = n - (k - 1) * BATCH_SIZE
            /\ Len(out_file.rows) = n + 1
            /\ out_file.rows[1] = fieldnames

\* a run of three URLs with batch size 2 has ended: a full and a partial batch
C1_Witness ==
    pc = "done" /\ Len(websites) = 3 /\ BATCH_SIZE = 2 /\ flushes = <<2, 1>>

\* at the completion summary results.csv holds, after the header, the row of
\* every record check_website returned, one per input URL and in input order,
\* the failed sites as "Error:" rows
C2_RowsAtDone ==
    /\ websites = ReadWebsites(input_file.rows)
    /\ Len(produced) = Len(websites)
    /\ Len(out_file.rows) = Len(websites) + 1
    /\ \A i \in 1..Len(websites) :
          /\ produced[i].url = websites[i]
          /\ out_file.rows[i + 1] = Row(produced[i])
          /\ out_file.rows[i + 1][1] = websites[i]
          /\ ~produced[i].status.is_int => StartsWith(out_file.rows[i + 1][2], "Error:")

\* C2: inspector failures never abort the run: whatever the outcomes of the
\* check_website calls, main reaches its completion summary when the input
\* exists, and results.csv then holds one row per input URL, in input order,
\* failed sites included.
C2_FailuresDoNotAbort ==
    /\ [](pc = "done" => C2_RowsAtDone)
    /\ (input_file.exists ~> pc = "done")

\* a run has ended in which a fetch failed and another did not
C2_Witness ==
    /\ pc = "done"
    /\ \E i \in 1..Len(produced) : ~produced[i].status.is_int
    /\ \E i \in 1..Len(produced) : produced[i].status.is_int

\* C5: the header row is written exactly once, before the first
\* check_website call; from then on results.csv exists with the header as
\* its first row, and no save rewrites or repeats it.
C5_HeaderOnceFirst ==
    /\ header_writes <= 1
    /\ Len(produced) > 0 => header_writes = 1
    /\ pc \in AfterHeader =>
          /\ header_writes = 1
          /\ out_file.exists
          /\ Len(out_file.rows) >= 1
          /\ out_file.rows[1] = fieldnames
          /\ \A i \in 2..Len(out_file.rows) : out_file.rows[i] # fieldnames

\* the second save of a run is under way, over a file an earlier run left
C5_Witness ==
    /\ pc = "saving"
    /\ written >= 1
    /\ Len(flushes) = 2
    /\ out_initial.exists

\* C6: with no input file main reports it and returns: check_website is
\* never called and results.csv is neither created, truncated nor appended to.
C6_MissingInput ==
    ~input_file.exists =>
        /\ pc \in {"start", "returned"}
        /\ produced = <<>>
        /\ header_writes = 0
        /\ flushes = <<>>
        /\ out_file = out_initial
        /\ pc = "returned" => console = <<"reading", "not found">>

\* main has returned for want of input, over a results.csv of an earlier run
C6_Witness ==
    pc = "returned" /\ ~input_file.exists /\ out_initial.exists /\ Len(out_file.rows) = 2

\* C7, as claimed: wherever main is stopped, fewer than BATCH_SIZE records
\* are produced and unwritten, and the rows of completed saves are kept.
C7_UnflushedBelowBatchSize ==
    /\ Unflushed <= BATCH_SIZE - 1
    /\ IsPrefix(durable, out_file.rows)

\* C7, amended: wherever main is stopped, at most BATCH_SIZE records are
\* produced and unwritten, and the rows of completed saves are kept.
C7_UnflushedAtMostBatchSize ==
    /\ Unflushed <= BATCH_SIZE
    /\ pc \in AfterHeader => IsPrefix(durable, out_file.rows)

\* a full batch is in memory, not yet saved, after an earlier save
C7_Witness ==
    /\ pc = "check_save"
    /\ Len(batch_results) = BATCH_SIZE
    /\ Unflushed = BATCH_SIZE
    /\ Len(flushes) >= 1
    /\ Len(durable) > 1

----------------------------------------------------------------------------
(* Properties of check_website *)

\* the call has returned
Returned == rec # NoRecord

\* what requests.get did with the URL check_website handed it
Fetched == RequestsGet(NormalizeUrl(in_url), in_resp)

\* the signal fields of a record are at the defaults of lines 8-27
SignalDefaults(r) ==
    /\ r.site_title = ""
    /\ r.meta_description = ""
    /\ r.copyright_year = ""
    /\ ~r.is_wordpress
    /\ r.theme = ""
    /\ r.plugin_count = 0
    /\ r.plugin_names = ""
    /\ ~r.has_woocommerce
    /\ ~r.has_shopify
    /\ ~r.has_elementor
    /\ ~r.has_beaver_builder
    /\ ~r.has_analytics
    /\ ~r.has_pixel
    /\ ~r.has_viewport

ErrorStatus(r) == ~r.status.is_int /\ StartsWith(r.status.text, "Error:")

\* the fetch raised a timeout or a connection error
FetchRaised ==
    Returned /\ Fetched.exc \in {"Read timed out", "Connection refused"}

C4_InspectionErrorAllDefaults ==
    (Returned /\ Fetched.exc = "" /\ Fetched.status_code = 200
              /\ Fetched.fail_at # "none") =>
        ErrorStatus(rec) /\ SignalDefaults(rec)

\* a URL has a scheme
HasScheme(u) == Contains(u, "://")

\* C8: for an input URL without a scheme the URL fetched begins with
\* "https://" and the record's is_https is true.
C8_SchemelessFetchedOverHttps ==
    (Returned /\ ~HasScheme(in_url)) =>
        StartsWith(NormalizeUrl(in_url), "https://") /\ rec.is_https

\* the slugs a plugin_names text lists, ", " between them
ListedPlugins(names) ==
    IF names = "" THEN {}
    ELSE LET seps == {i \in 1..(Len(names) - 1) : SubSeq(names, i, i + 1) = ", "}
             starts == {1} \cup {i + 2 : i \in seps}
             EndOf(st) == Min({i \in seps : i >= st} \cup {Len(names) + 1}) - 1
         IN  {SubSeq(names, st, EndOf(st)) : st \in starts}

\* C9: in every record check_website returns, plugin_count is the number of
\* distinct slugs plugin_names lists.
C9_CountMatchesNames ==
    Returned => rec.plugin_count = Cardinality(ListedPlugins(rec.plugin_names))

====
